---- MODULE Spec2Model ----
(***************************************************************************)
(* Terraform-to-diagram pipeline of aws-diagrams:                          *)
(*   tf_scanner.extract_resource_blocks      (Block Scanner)               *)
(*   mappings.extract_resource_references    (Reference Extractor)         *)
(*   mappings.create_edges_from_block / create_diagram_edges /             *)
(*   write_diagram_yaml                      (Graph Builder, Serializer)   *)
(*   DiagramGenerator._get_cluster_nodes     (Cluster Resolver)            *)
(* Text is a sequence of one-character strings; a file is a sequence of    *)
(* lines.  Each component has its own specification over the shared        *)
(* variables: SpecCluster, SpecScan, SpecEdges, SpecNodes, SpecPipeline,    *)
(* SpecIcon.                                                               *)
(***************************************************************************)
EXTENDS Integers, Sequences, FiniteSets, TLC

VARIABLES
    \* ---- DiagramGenerator (diagram_generator.py)
    yaml_nodes,      \* self.yaml_nodes: sequence of [id, parent]
    yaml_edges,      \* self.yaml_edges: sequence of [source, target]
    cluster_nodes,   \* ordered dict: sequence of [key, members]
    adjacency,       \* dict id -> set of ids
    changed,         \* loop flag of the closure
    cidx,            \* position of the for loop over cluster_nodes.items()
    cpc,             \* control point of _get_cluster_nodes
    run,             \* which call of _get_cluster_nodes this is (1 or 2)
    first_result,    \* what the first call returned
    \* ---- extract_resource_blocks (tf_scanner.py)
    content,         \* the text of one file
    lines,           \* content.splitlines()
    sidx,            \* number of lines the for loop has consumed
    blocks,          \* list of ResourceBlock [type, name, content, identifier]
    current_block,   \* lines accumulated for the open record
    brace_count,
    in_block,
    resource_type,   \* None or the first quoted token of the header
    resource_name,   \* None or the second quoted token of the header
    spc,             \* control point of extract_resource_blocks
    \* ---- create_diagram_edges, write_diagram_yaml (mappings.py)
    resources,       \* list of ResourceBlock handed to create_diagram_edges
    eidx,            \* number of resources the for loop has consumed
    ref_content,     \* create_edges_from_block: content (the body text)
    references,      \* create_edges_from_block: references
    all_edges,       \* list of Edge [source, target]
    edge_dicts,      \* yaml_content["edges"], empty when the key is not set
    document,        \* yaml_content handed to yaml.safe_dump
    epc,             \* control point of the edge pipeline
    \* ---- create_diagram_nodes (mappings.py)
    nodes,           \* list of Node [id, label, parent, identifier]
    nidx,            \* number of resources the for loop has consumed
    npc,             \* control point of create_diagram_nodes
    \* ---- main (tf_scanner.py)
    files,           \* results: the contents of the scanned files, in order
    fidx,            \* number of files the for loop has consumed
    all_blocks,      \* records collected from all files
    first_document,  \* the document of the first run
    prun,            \* which run of the pipeline this is (1 or 2)
    ppc,             \* control point of main
    \* ---- DiagramGenerator._create_nodes, get_node_class
    node_id,         \* node["id"] of the node being created
    icon_type,       \* resource_type handed to get_node_class
    node_class,      \* what get_node_class returned
    ipc              \* control point of the icon lookup

clusterVars == <<yaml_nodes, yaml_edges, cluster_nodes, adjacency, changed,
                 cidx, cpc, run, first_result>>

scanVars == <<content, lines, sidx, blocks, current_block, brace_count,
              in_block, resource_type, resource_name, spc>>

edgeVars == <<resources, eidx, ref_content, references, all_edges, edge_dicts,
              document, epc>>

nodeVars == <<nodes, nidx, npc>>

pipeVars == <<files, fidx, all_blocks, first_document, prun, ppc>>

iconVars == <<node_id, icon_type, node_class, ipc>>

vars == <<clusterVars, scanVars, edgeVars, nodeVars, pipeVars, iconVars>>

nonClusterVars == <<scanVars, edgeVars, nodeVars, pipeVars, iconVars>>
nonScanVars == <<clusterVars, edgeVars, nodeVars, pipeVars, iconVars>>
nonEdgeVars == <<clusterVars, scanVars, nodeVars, pipeVars, iconVars>>
nonNodeVars == <<clusterVars, scanVars, edgeVars, pipeVars, iconVars>>
nonPipeVars == <<clusterVars, iconVars>>
nonIconVars == <<clusterVars, scanVars, edgeVars, nodeVars, pipeVars>>

\* ------------------------------------------------------------------ bounds
MaxSize == 4      \* nodes plus edges of one diagram document
MaxLines == 4     \* lines of one scanned file
MaxTokens == 4    \* body tokens of the records handed to create_diagram_edges
MaxRecords == 2   \* records handed to create_diagram_nodes
MaxFileLines == 3 \* lines of the files of one pipeline run, together
MaxWords == 3     \* words of a resource kind handed to get_node_class

\* ---------------------------------------------------------------- generic
Range(s) == {s[i] : i \in DOMAIN s}

\* =====================================================================
\* Cluster Resolver: DiagramGenerator._get_cluster_nodes
\* =====================================================================
NoParent == "none"                       \* node.get("parent") is falsy
ParentKeys == {"region", "vpc"}          \* values of parent_mappings
AbsentId == 0                            \* an id no node of the list has

\* Node lists of n nodes: ids pairwise distinct (1..n in list order), any
\* parent hints.
NodeLists(n) ==
    { [i \in 1..n |-> [id |-> i, parent |-> f[i]]] :
        f \in [1..n -> ParentKeys \cup {NoParent}] }

EdgeKey(e, n) == e.source * (n + 1) + e.target

\* Edge lists of at most m edges over the ids of n nodes and the absent id:
\* any endpoints (self-loops included), listed in increasing key order, as
\* adjacency is a set union over the list.
EdgeLists(n, m) ==
    UNION { { es \in [1..k -> [source : {AbsentId} \cup 1..n, target : {AbsentId} \cup 1..n]] :
                \A i \in 1..(k - 1) : EdgeKey(es[i], n) < EdgeKey(es[i + 1], n) } :
            k \in 0..m }

\* position of key k in the ordered dict d, 0 when absent
KeyPos(d, k) ==
    IF \E i \in DOMAIN d : d[i].key = k
    THEN CHOOSE i \in DOMAIN d : d[i].key = k
    ELSE 0

\* lines 94-98, one iteration: cluster_nodes[parent].add(node["id"])
SeedNode(d, node) ==
    IF node.parent = NoParent THEN d
    ELSE IF KeyPos(d, node.parent) = 0
         THEN Append(d, [key |-> node.parent, members |-> {node.id}])
         ELSE [d EXCEPT ![KeyPos(d, node.parent)].members = @ \cup {node.id}]

RECURSIVE SeedClusters(_, _)
\* lines 93-98: fold of SeedNode over the node list, from the left
SeedClusters(node_list, d) ==
    IF node_list = <<>> THEN d
    ELSE SeedClusters(Tail(node_list), SeedNode(d, Head(node_list)))

\* mutant: adjacency[target].add(source) is left out
BuildAdjacency_Directed(edges) ==
    LET ends == {e.source : e \in Range(edges)} \cup {e.target : e \in Range(edges)}
    IN [x \in ends |-> {e.target : e \in {f \in Range(edges) : f.source = x}}]

\* lines 102-110: the undirected adjacency relation of the edge list
BuildAdjacency(edges) ==
    LET ends == {e.source : e \in Range(edges)} \cup {e.target : e \in Range(edges)}
    IN [x \in ends |->
          {e.target : e \in {f \in Range(edges) : f.source = x}}
          \cup {e.source : e \in {f \in Range(edges) : f.target = x}}]

\* lines 121-125: connected is claimed by a cluster other than the i-th
ClaimedByOther(d, i, connected) ==
    \E j \in DOMAIN d : d[j].key # d[i].key /\ connected \in d[j].members

\* mutant: the check against the other clusters' members is dropped
NewMembers_NoOtherCheck(d, adj, i) ==
    { connected \in UNION { adj[m] : m \in d[i].members \cap DOMAIN adj } :
        connected \notin d[i].members }

\* mutant: the check "connected not in members" is dropped
NewMembers_KeepsOwn(d, adj, i) ==
    { connected \in UNION { adj[m] : m \in d[i].members \cap DOMAIN adj } :
        ~ClaimedByOther(d, i, connected) }

\* mutant: a node some other cluster also reaches is left to nobody
NewMembers_SkipsContested(d, adj, i) ==
    { connected \in UNION { adj[m] : m \in d[i].members \cap DOMAIN adj } :
        /\ connected \notin d[i].members
        /\ ~ClaimedByOther(d, i, connected)
        /\ ~\E j \in DOMAIN d : j # i /\ \E m \in d[j].members \cap DOMAIN adj :
                                           connected \in adj[m] }

\* lines 117-126: new_members of the i-th cluster
NewMembers(d, adj, i) ==
    { connected \in UNION { adj[m] : m \in d[i].members \cap DOMAIN adj } :
        connected \notin d[i].members /\ ~ClaimedByOther(d, i, connected) }

\* the variables of the other components while this one runs
IdleScan ==
    /\ content = <<>>
    /\ lines = <<>>
    /\ sidx = 0
    /\ blocks = <<>>
    /\ current_block = <<>>
    /\ brace_count = 0
    /\ in_block = FALSE
    /\ resource_type = <<>>
    /\ resource_name = <<>>
    /\ spc = "idle"

IdleEdges ==
    /\ resources = <<>>
    /\ eidx = 0
    /\ ref_content = <<>>
    /\ references = <<>>
    /\ all_edges = <<>>
    /\ edge_dicts = <<>>
    /\ document = <<>>
    /\ epc = "idle"

IdleNodes ==
    /\ nodes = <<>>
    /\ nidx = 0
    /\ npc = "idle"

IdlePipe ==
    /\ files = <<>>
    /\ fidx = 0
    /\ all_blocks = <<>>
    /\ first_document = <<>>
    /\ prun = 0
    /\ ppc = "idle"

IdleIcon ==
    /\ node_id = <<>>
    /\ icon_type = <<>>
    /\ node_class = <<>>
    /\ ipc = "idle"

IdleCluster ==
    /\ yaml_nodes = <<>>
    /\ yaml_edges = <<>>
    /\ cluster_nodes = <<>>
    /\ adjacency = <<>>
    /\ changed = FALSE
    /\ cidx = 0
    /\ cpc = "idle"
    /\ run = 0
    /\ first_result = <<>>

InitCluster ==
    /\ \E n \in 0..MaxSize :
          /\ yaml_nodes \in NodeLists(n)
          /\ yaml_edges \in EdgeLists(n, MaxSize - n)
    /\ cluster_nodes = <<>>
    /\ adjacency = <<>>
    /\ changed = FALSE
    /\ cidx = 0
    /\ cpc = "start"
    /\ run = 1
    /\ first_result = <<>>
    /\ IdleScan
    /\ IdleEdges
    /\ IdleNodes
    /\ IdlePipe
    /\ IdleIcon

\* lines 93-113: seeds, adjacency, changed = True
ClusterSetup ==
    /\ cpc = "start"
    /\ cluster_nodes' = SeedClusters(yaml_nodes, <<>>)
    /\ adjacency' = BuildAdjacency(yaml_edges)
    /\ changed' = TRUE
    /\ cidx' = 0
    /\ cpc' = "while"
    /\ UNCHANGED <<yaml_nodes, yaml_edges, run, first_result>>
    /\ UNCHANGED nonClusterVars

\* line 114-115: while changed: changed = False; line 131: return
ClusterWhile ==
    /\ cpc = "while"
    /\ IF changed
       THEN /\ changed' = FALSE
            /\ cidx' = 1
            /\ cpc' = "for"
       ELSE /\ cpc' = "done"
            /\ UNCHANGED <<changed, cidx>>
    /\ UNCHANGED <<yaml_nodes, yaml_edges, cluster_nodes, adjacency, run, first_result>>
    /\ UNCHANGED nonClusterVars

\* lines 116-129: the body of the for loop for one cluster
ClusterFor ==
    /\ cpc = "for"
    /\ cidx <= Len(cluster_nodes)
    /\ LET new_members == NewMembers(cluster_nodes, adjacency, cidx)
       IN /\ changed' = (changed \/ new_members # {})
          /\ cluster_nodes' = [cluster_nodes EXCEPT ![cidx].members = @ \cup new_members]
    /\ cidx' = cidx + 1
    /\ UNCHANGED <<yaml_nodes, yaml_edges, adjacency, cpc, run, first_result>>
    /\ UNCHANGED nonClusterVars

\* line 116: the for loop is exhausted, back to the while test
ClusterForEnd ==
    /\ cpc = "for"
    /\ cidx > Len(cluster_nodes)
    /\ cpc' = "while"
    /\ UNCHANGED <<yaml_nodes, yaml_edges, cluster_nodes, adjacency, changed,
                   cidx, run, first_result>>
    /\ UNCHANGED nonClusterVars

\* line 178: a second call of _get_cluster_nodes on the same generator
ClusterRerun ==
    /\ cpc = "done"
    /\ run = 1
    /\ first_result' = cluster_nodes
    /\ run' = 2
    /\ cluster_nodes' = <<>>
    /\ adjacency' = <<>>
    /\ changed' = FALSE
    /\ cidx' = 0
    /\ cpc' = "start"
    /\ UNCHANGED <<yaml_nodes, yaml_edges>>
    /\ UNCHANGED nonClusterVars

NextCluster ==
    \/ ClusterSetup
    \/ ClusterWhile
    \/ ClusterFor
    \/ ClusterForEnd
    \/ ClusterRerun

SpecCluster == InitCluster /\ [][NextCluster]_vars

SpecClusterFair == SpecCluster /\ WF_vars(NextCluster)

\* ---------------------------------------------------------------------
\* Claims about the Cluster Resolver
\* ---------------------------------------------------------------------
AllIds == 0..MaxSize

TotalClaimed(d) == Cardinality(UNION {d[i].members : i \in DOMAIN d})

\* ids that can ever be claimed: node ids and edge endpoints
Claimable ==
    {yaml_nodes[i].id : i \in DOMAIN yaml_nodes}
    \cup {yaml_edges[i].source : i \in DOMAIN yaml_edges}
    \cup {yaml_edges[i].target : i \in DOMAIN yaml_edges}

\* n is joined by an edge to a member of the i-th cluster
AdjacentToCluster(n, i) ==
    \E m \in cluster_nodes[i].members \cap DOMAIN adjacency : n \in adjacency[m]

Unclaimed(n) == \A i \in DOMAIN cluster_nodes : n \notin cluster_nodes[i].members

\* the members the parent hints alone give
SeedMembers == UNION {SeedClusters(yaml_nodes, <<>>)[i].members :
                        i \in DOMAIN SeedClusters(yaml_nodes, <<>>)}

\* C1: in every state of _get_cluster_nodes (after the seeding, after every
\* single members.update of the loop, and on return) no id is in the member
\* set of two different clusters.
C1_MembersDisjoint ==
    \A i, j \in DOMAIN cluster_nodes :
        i # j => cluster_nodes[i].members \cap cluster_nodes[j].members = {}

\* C1 witness: the closure has returned with two clusters, one of which
\* claimed a node through an edge.
C1_Witness ==
    /\ cpc = "done"
    /\ Len(cluster_nodes) >= 2
    /\ \E i \in DOMAIN cluster_nodes : cluster_nodes[i].members \ SeedMembers # {}

\* the closure loop is running (between the seeding and the return) in this
\* state and in the next
InLoopStep == cpc \in {"while", "for"} /\ cpc' \in {"while", "for", "done"}

\* C2: every call of _get_cluster_nodes returns; while the loop runs no
\* member is removed, the for-body sets changed only when it strictly grows
\* the number of claimed ids, that number never exceeds the number of
\* claimable ids, and the loop exits as soon as the while test sees a pass
\* that added nothing.
C2_Terminates ==
    /\ (cpc = "start") ~> (cpc = "done")
    /\ [][ InLoopStep =>
             /\ Len(cluster_nodes') = Len(cluster_nodes)
             /\ \A i \in DOMAIN cluster_nodes :
                   cluster_nodes[i].members \subseteq cluster_nodes'[i].members
             /\ (cpc = "for" /\ cidx' # cidx) =>
                   (changed' <=> (changed \/ TotalClaimed(cluster_nodes') >
                                            TotalClaimed(cluster_nodes)))
             /\ (cpc = "while" /\ cpc' = "for") => ~changed'
             /\ (cpc = "while" /\ ~changed) => cpc' = "done" ]_vars
    /\ [](cpc # "start" =>
             /\ UNION {cluster_nodes[i].members : i \in DOMAIN cluster_nodes}
                   \subseteq Claimable
             /\ TotalClaimed(cluster_nodes) <= Cardinality(Claimable))

\* C2 witness: the loop has returned after at least two growing passes: a
\* member that is neither a seed nor joined by an edge to a seed.
C2_Witness ==
    /\ cpc = "done"
    /\ \E i \in DOMAIN cluster_nodes :
         \E n \in cluster_nodes[i].members \ SeedMembers :
            \A m \in SeedMembers \cap DOMAIN adjacency : n \notin adjacency[m]

\* index of the first node of the list whose parent hint is k
FirstNodeWithParent(k) ==
    CHOOSE i \in DOMAIN yaml_nodes :
        /\ yaml_nodes[i].parent = k
        /\ \A j \in 1..(i - 1) : yaml_nodes[j].parent # k

\* C3: the clusters are kept, and so evaluated in every pass, in the order
\* in which their parent key first appears in the node list; when the for
\* loop evaluates a cluster, every unclaimed id joined to one of its members
\* and also to a member of another cluster goes to the evaluated cluster and
\* to no other; a member is never given up; and a second call on the same
\* lists returns the same partition.
C3_TieBreak ==
    /\ [](cpc # "start" =>
            /\ {cluster_nodes[i].key : i \in DOMAIN cluster_nodes}
                 = {yaml_nodes[i].parent : i \in DOMAIN yaml_nodes} \ {NoParent}
            /\ \A i, j \in DOMAIN cluster_nodes :
                 i < j => FirstNodeWithParent(cluster_nodes[i].key)
                            < FirstNodeWithParent(cluster_nodes[j].key))
    /\ [][ (cpc = "for" /\ cidx' = cidx + 1) =>
             \A n \in AllIds :
                (/\ Unclaimed(n)
                 /\ AdjacentToCluster(n, cidx)
                 /\ \E j \in DOMAIN cluster_nodes :
                       j # cidx /\ AdjacentToCluster(n, j))
                => /\ n \in cluster_nodes'[cidx].members
                   /\ \A j \in DOMAIN cluster_nodes :
                        j # cidx => n \notin cluster_nodes'[j].members ]_vars
    /\ [][ InLoopStep =>
             \A i \in DOMAIN cluster_nodes :
                cluster_nodes[i].members \subseteq cluster_nodes'[i].members ]_vars
    /\ []((cpc = "done" /\ run = 2) => cluster_nodes = first_result)

\* C3 witness: the for loop is about to evaluate a cluster while an unclaimed
\* id is joined to it and to a cluster evaluated later in the pass.
C3_Witness ==
    /\ cpc = "for"
    /\ cidx <= Len(cluster_nodes)
    /\ \E n \in AllIds :
         /\ Unclaimed(n)
         /\ AdjacentToCluster(n, cidx)
         /\ \E j \in DOMAIN cluster_nodes : j > cidx /\ AdjacentToCluster(n, j)


\* ids of the nodes that have a parent hint
Hinted == {yaml_nodes[i].id : i \in {k \in DOMAIN yaml_nodes : yaml_nodes[k].parent # NoParent}}

NodeIds == {yaml_nodes[i].id : i \in DOMAIN yaml_nodes}

\* x and y are the two ends of an edge
Joined(x, y) ==
    \E e \in Range(yaml_edges) :
        (e.source = x /\ e.target = y) \/ (e.source = y /\ e.target = x)

\* the ids connected to an id of S by a path of edges
RECURSIVE PathClosure(_)
PathClosure(S) ==
    LET next == S \cup {x \in Claimable : \E y \in S : Joined(x, y)}
    IN IF next = S THEN S ELSE PathClosure(next)

ClustersOf(x) == {j \in DOMAIN cluster_nodes : x \in cluster_nodes[j].members}

\* C15: when _get_cluster_nodes returns, every node with a parent hint is a
\* member of the cluster its hint names; the two ends of every edge are
\* either both members of some cluster or both members of none; every id
\* connected by a path of edges to a hinted node is in exactly one cluster,
\* and an id with no hint and no such path is in none.
C15_FixedPoint ==
    cpc = "done" =>
        /\ \A i \in DOMAIN yaml_nodes :
              yaml_nodes[i].parent # NoParent =>
                  \E j \in DOMAIN cluster_nodes :
                      /\ cluster_nodes[j].key = yaml_nodes[i].parent
                      /\ yaml_nodes[i].id \in cluster_nodes[j].members
        /\ \A e \in Range(yaml_edges) :
              (ClustersOf(e.source) # {}) <=> (ClustersOf(e.target) # {})
        /\ \A x \in Claimable :
              IF x \in PathClosure(Hinted)
              THEN Cardinality(ClustersOf(x)) = 1
              ELSE ClustersOf(x) = {}

\* the closure has returned; node 2 has no hint and is the source of an
\* edge to the hinted node 1, node 3 has no hint and no edge
C15_Witness ==
    /\ cpc = "done"
    /\ Len(yaml_nodes) = 3
    /\ Hinted = {1}
    /\ yaml_edges = <<[source |-> 2, target |-> 1]>>
    /\ ClustersOf(2) = ClustersOf(1)
    /\ ClustersOf(3) = {}

\* C16: every member of every cluster is the id of a node of the node
\* list, so the number of claimed ids never exceeds the number of nodes; an
\* edge with an end absent from the node list adds no member.
C16_MembersAreNodeIds ==
    /\ \A j \in DOMAIN cluster_nodes : cluster_nodes[j].members \subseteq NodeIds
    /\ TotalClaimed(cluster_nodes) <= Len(yaml_nodes)

\* =====================================================================
\* Text: Python str operations on sequences of one-character strings
\* =====================================================================
Quote == "\""
Newline == "\n"
Whitespace == {" ", "\t"}

\* str.lstrip()
RECURSIVE LStrip(_)
LStrip(s) ==
    IF s # <<>> /\ Head(s) \in Whitespace THEN LStrip(Tail(s)) ELSE s

\* str.rstrip()
RECURSIVE RStrip(_)
RStrip(s) ==
    IF s # <<>> /\ s[Len(s)] \in Whitespace
    THEN RStrip(SubSeq(s, 1, Len(s) - 1)) ELSE s

\* str.strip()
Strip(s) == RStrip(LStrip(s))

RECURSIVE LStripChar(_, _)
LStripChar(s, ch) ==
    IF s # <<>> /\ Head(s) = ch THEN LStripChar(Tail(s), ch) ELSE s

RECURSIVE RStripChar(_, _)
RStripChar(s, ch) ==
    IF s # <<>> /\ s[Len(s)] = ch
    THEN RStripChar(SubSeq(s, 1, Len(s) - 1), ch) ELSE s

\* str.strip(ch)
StripChar(s, ch) == RStripChar(LStripChar(s, ch), ch)

\* str.startswith(prefix)
StartsWith(s, prefix) ==
    Len(s) >= Len(prefix) /\ SubSeq(s, 1, Len(prefix)) = prefix

\* sub in s
Contains(s, sub) ==
    \E i \in 1..(Len(s) - Len(sub) + 1) : SubSeq(s, i, i + Len(sub) - 1) = sub

\* str.count(ch) for a one-character ch
Count(s, ch) == Cardinality({i \in DOMAIN s : s[i] = ch})

\* str.split(ch) for a one-character ch
RECURSIVE Split(_, _)
Split(s, ch) ==
    IF \A i \in DOMAIN s : s[i] # ch THEN <<s>>
    ELSE LET i == CHOOSE k \in DOMAIN s : s[k] = ch /\ \A j \in 1..(k - 1) : s[j] # ch
         IN <<SubSeq(s, 1, i - 1)>> \o Split(SubSeq(s, i + 1, Len(s)), ch)

\* sep.join(parts) for a one-character sep
RECURSIVE Join(_, _)
Join(parts, sep) ==
    IF parts = <<>> THEN <<>>
    ELSE IF Len(parts) = 1 THEN parts[1]
    ELSE parts[1] \o <<sep>> \o Join(Tail(parts), sep)

\* str.splitlines(): no empty last line after a final line break
RECURSIVE SplitLines(_)
SplitLines(text) ==
    IF text = <<>> THEN <<>>
    ELSE IF \A i \in DOMAIN text : text[i] # Newline THEN <<text>>
    ELSE LET i == CHOOSE k \in DOMAIN text :
                     text[k] = Newline /\ \A j \in 1..(k - 1) : text[j] # Newline
         IN <<SubSeq(text, 1, i - 1)>> \o SplitLines(SubSeq(text, i + 1, Len(text)))

\* =====================================================================
\* Block Scanner: extract_resource_blocks
\* =====================================================================
None == <<"None">>                 \* Python None (no text is equal to it)
Truthy(x) == x # None /\ x # <<>>  \* bool(x) of None or a str

KwResource == <<"r", "e", "s", "o", "u", "r", "c", "e">>
KwName == <<"n", "a", "m", "e">>

\* the lines a scanned file is made of
LnHeaderA == KwResource \o <<" ", Quote, "a", Quote, " ", Quote, "m", Quote, " ", "{">>
LnHeaderB == <<" ">> \o KwResource \o <<" ", Quote, "b", Quote, " ", Quote, "n", Quote, " ", "{">>
LnHeaderBare == KwResource \o <<" ", Quote, "a", Quote, " ", Quote, "m", Quote>>
LnHeaderOneToken == KwResource \o <<" ", Quote, "a", Quote, " ", "{">>
LnHeaderEmptyKind == KwResource \o <<" ", Quote, Quote, " ", Quote, "m", Quote, " ", "{">>
LnName == <<" ">> \o KwName \o <<" ", "=", " ", Quote, "x", Quote>>
LnNameEmpty == KwName \o <<" ", "=", " ", Quote, Quote>>
LnNameTwoEq == KwName \o <<"=", Quote, "y", "=", "z", Quote>>
LnRef == <<" ", "v", " ", "=", " ", "a", ".", "m", ".", "i">>
LnClose == <<"}">>

LineSet == {LnHeaderA, LnHeaderB, LnHeaderBare, LnHeaderOneToken, LnHeaderEmptyKind,
            LnName, LnNameEmpty, LnNameTwoEq, LnRef, LnClose}

\* line 85: parts = stripped.split('"')
HeaderParts(stripped) == Split(stripped, Quote)

\* mutant: a header inside an open record starts a record again
StartsRecord_IgnoresOpen(in_blk, stripped) ==
    /\ StartsWith(stripped, KwResource)
    /\ Len(HeaderParts(stripped)) >= 4

\* lines 84-86: the line starts a record
StartsRecord(in_blk, stripped) ==
    /\ ~in_blk
    /\ StartsWith(stripped, KwResource)
    /\ Len(HeaderParts(stripped)) >= 4

\* mutant: the identifier is built from the finalized name
Identifier_FromFinalName(type, header_name, final_name) ==
    type \o <<".">> \o final_name

\* line 113: f"{resource_type}.{resource_name}"
Identifier(type, header_name, final_name) ==
    type \o <<".">> \o header_name

\* line 103: 'name' in line and '=' in line
IsNameLine(line) == Contains(line, KwName) /\ Contains(line, <<"=">>)

\* mutant: the last matching line wins
ActualName_LastLine(current) ==
    IF \E k \in DOMAIN current : IsNameLine(current[k])
    THEN LET k == CHOOSE i \in DOMAIN current :
                     IsNameLine(current[i])
                     /\ \A j \in (i + 1)..Len(current) : ~IsNameLine(current[j])
         IN StripChar(Strip(Split(current[k], "=")[2]), Quote)
    ELSE None

\* lines 101-107: actual_name, from the first line holding 'name' and '='
ActualName(current) ==
    IF \E k \in DOMAIN current : IsNameLine(current[k])
    THEN LET k == CHOOSE i \in DOMAIN current :
                     IsNameLine(current[i]) /\ \A j \in 1..(i - 1) : ~IsNameLine(current[j])
         IN StripChar(Strip(Split(current[k], "=")[2]), Quote)
    ELSE None

\* line 111: actual_name or resource_name
FinalName(current, header_name) ==
    IF Truthy(ActualName(current)) THEN ActualName(current) ELSE header_name

\* lines 109-114: the ResourceBlock of the record that closes
MakeBlock(type, header_name, current) ==
    [type |-> type,
     name |-> FinalName(current, header_name),
     content |-> Join(current, Newline),
     identifier |-> Identifier(type, header_name, FinalName(current, header_name))]

\* mutant: the closing braces are not counted
BraceDelta_OpenOnly(line) == Count(line, "{")

\* lines 93-94: what the line adds to brace_count
BraceDelta(line) == Count(line, "{") - Count(line, "}")

\* mutant: the record is put in front of the list
AppendBlock_Front(bs, b) == <<b>> \o bs

\* line 109: blocks.append(...)
AppendBlock(bs, b) == Append(bs, b)

InitScan ==
    /\ \E n \in 0..MaxLines : \E ls \in [1..n -> LineSet] : content = Join(ls, Newline)
    /\ lines = <<>>
    /\ sidx = 0
    /\ blocks = <<>>
    /\ current_block = <<>>
    /\ brace_count = 0
    /\ in_block = FALSE
    /\ resource_type = None
    /\ resource_name = None
    /\ spc = "start"
    /\ IdleCluster
    /\ IdleEdges
    /\ IdleNodes
    /\ IdlePipe
    /\ IdleIcon

\* line 81: content.splitlines()
ScanStart ==
    /\ spc = "start"
    /\ lines' = SplitLines(content)
    /\ spc' = "scan"
    /\ UNCHANGED <<content, sidx, blocks, current_block, brace_count, in_block,
                   resource_type, resource_name>>
    /\ UNCHANGED nonScanVars

\* lines 81-117: the loop body for the next line
ScanLine ==
    /\ spc = "scan"
    /\ sidx < Len(lines)
    /\ LET line == lines[sidx + 1]
           stripped == Strip(line)
           starts == StartsRecord(in_block, stripped)
           parts == HeaderParts(stripped)
           type1 == IF starts THEN parts[2] ELSE resource_type
           name1 == IF starts THEN parts[4] ELSE resource_name
           open1 == in_block \/ starts
           current1 == Append(current_block, line)
           count1 == brace_count + BraceDelta(line)
       IN /\ sidx' = sidx + 1
          /\ IF starts /\ Len(parts) < 4
             THEN \* parts[1] or parts[3] raises IndexError
                  /\ spc' = "raised"
                  /\ UNCHANGED <<blocks, current_block, brace_count, in_block,
                                 resource_type, resource_name>>
             ELSE /\ spc' = spc
                  /\ IF ~open1
                     THEN UNCHANGED <<blocks, current_block, brace_count, in_block,
                                      resource_type, resource_name>>
                     ELSE IF count1 # 0
                     THEN /\ current_block' = current1
                          /\ brace_count' = count1
                          /\ in_block' = TRUE
                          /\ resource_type' = type1
                          /\ resource_name' = name1
                          /\ blocks' = blocks
                     ELSE /\ blocks' = IF Truthy(type1) /\ Truthy(name1)
                                       THEN AppendBlock(blocks, MakeBlock(type1, name1, current1))
                                       ELSE blocks
                          /\ current_block' = <<>>
                          /\ brace_count' = count1
                          /\ in_block' = FALSE
                          /\ resource_type' = None
                          /\ resource_name' = None
    /\ UNCHANGED <<content, lines>>
    /\ UNCHANGED nonScanVars

\* line 119: return blocks
ScanReturn ==
    /\ spc = "scan"
    /\ sidx = Len(lines)
    /\ spc' = "done"
    /\ UNCHANGED <<content, lines, sidx, blocks, current_block, brace_count,
                   in_block, resource_type, resource_name>>
    /\ UNCHANGED nonScanVars

NextScan ==
    \/ ScanStart
    \/ ScanLine
    \/ ScanReturn

SpecScan == InitScan /\ [][NextScan]_vars

\* ---------------------------------------------------------------------
\* Claims about the Block Scanner
\* ---------------------------------------------------------------------
\* positions of the double quotes of a line
QuotePositions(line) == {i \in DOMAIN line : line[i] = Quote}

\* the k-th smallest element of a set of numbers
KthOf(S, k) == CHOOSE x \in S : Cardinality({y \in S : y < x}) = k - 1

\* the text between the (2k-1)-th and the 2k-th double quote of a line
QuotedToken(line, k) ==
    SubSeq(line, KthOf(QuotePositions(line), 2 * k - 1) + 1,
                 KthOf(QuotePositions(line), 2 * k) - 1)

\* the line is a resource header: the keyword after leading blanks, and two
\* non-empty quoted tokens
IsResourceHeader(line) ==
    /\ \E i \in DOMAIN line :
          /\ \A j \in 1..(i - 1) : line[j] \in Whitespace
          /\ i + Len(KwResource) - 1 <= Len(line)
          /\ SubSeq(line, i, i + Len(KwResource) - 1) = KwResource
    /\ Cardinality(QuotePositions(line)) >= 4
    /\ QuotedToken(line, 1) # <<>>
    /\ QuotedToken(line, 2) # <<>>

\* the line does not begin, after leading blanks, with the keyword
IsOrdinaryLine(line) ==
    ~\E i \in DOMAIN line :
          /\ \A j \in 1..(i - 1) : line[j] \in Whitespace
          /\ i + Len(KwResource) - 1 <= Len(line)
          /\ SubSeq(line, i, i + Len(KwResource) - 1) = KwResource

\* opening minus closing braces of lines p..j
RECURSIVE NetBraces(_, _, _)
NetBraces(ls, p, j) ==
    IF j < p THEN 0
    ELSE NetBraces(ls, p, j - 1)
         + Cardinality({i \in DOMAIN ls[j] : ls[j][i] = "{"})
         - Cardinality({i \in DOMAIN ls[j] : ls[j][i] = "}"})

\* lines p..j are one brace-balanced resource block: a header, the braces
\* open until line j and balanced at line j
IsBlockSpan(ls, p, j) ==
    /\ p <= j
    /\ IsResourceHeader(ls[p])
    /\ NetBraces(ls, p, j) = 0
    /\ \A k \in p..(j - 1) : NetBraces(ls, p, k) > 0

\* last line of the segment that starts at s, for the segment starts S
SegEnd(ls, S, s) ==
    IF \E t \in S : t > s
    THEN (CHOOSE t \in S : t > s /\ \A u \in S : u > s => t <= u) - 1
    ELSE Len(ls)

\* S cuts the lines into brace-balanced resource blocks and ordinary lines
IsBlockSequence(ls, S) ==
    /\ ls # <<>> => 1 \in S
    /\ \A s \in S :
          \/ IsBlockSpan(ls, s, SegEnd(ls, S, s))
          \/ (SegEnd(ls, S, s) = s /\ IsOrdinaryLine(ls[s]))

BlockStarts(ls, S) == {s \in S : IsResourceHeader(ls[s])}

\* the lines are one resource block p..j between ordinary lines
IsSingleBlock(ls, p, j) ==
    /\ p \in DOMAIN ls /\ j \in DOMAIN ls
    /\ IsBlockSpan(ls, p, j)
    /\ \A k \in DOMAIN ls : (k < p \/ k > j) => IsOrdinaryLine(ls[k])

HeaderIdentifier(line) == QuotedToken(line, 1) \o <<".">> \o QuotedToken(line, 2)

\* C7: for an input that is one well-formed resource block (between ordinary
\* lines) the scan returns exactly one record, with identifier
\* "<kind>.<headerName>" from the two quoted tokens of the header line; and
\* every record returned for any input has the identifier built from the
\* quoted tokens of its own header line, whatever its name field is.
C7_IdentifierFromHeader ==
    spc = "done" =>
       /\ \A p, j \in DOMAIN lines :
             IsSingleBlock(lines, p, j) =>
                /\ Len(blocks) = 1
                /\ blocks[1].type = QuotedToken(lines[p], 1)
                /\ blocks[1].identifier = HeaderIdentifier(lines[p])
       /\ \A k \in DOMAIN blocks :
             blocks[k].identifier = HeaderIdentifier(SplitLines(blocks[k].content)[1])

\* C7 witness: a single block whose body renames the record.
C7_Witness ==
    /\ spc = "done"
    /\ \E p, j \in DOMAIN lines :
          /\ IsSingleBlock(lines, p, j)
          /\ Len(blocks) = 1
          /\ blocks[1].name # QuotedToken(lines[p], 2)

\* the first line of ls that holds 'name' and '='
FirstNameLine(ls) ==
    ls[CHOOSE k \in DOMAIN ls :
          /\ Contains(ls[k], KwName) /\ Contains(ls[k], <<"=">>)
          /\ \A j \in 1..(k - 1) :
                ~(Contains(ls[j], KwName) /\ Contains(ls[j], <<"=">>))]

HasNameLine(ls) ==
    \E k \in DOMAIN ls : Contains(ls[k], KwName) /\ Contains(ls[k], <<"=">>)

FirstEq(line) == CHOOSE i \in DOMAIN line : line[i] = "=" /\ \A j \in 1..(i - 1) : line[j] # "="

\* all the text right of the first '='
RightHandSide(line) == SubSeq(line, FirstEq(line) + 1, Len(line))

\* the text between the first '=' and the second '=' (or the end of line)
FirstAssigned(line) ==
    LET rest == RightHandSide(line)
    IN IF \E i \in DOMAIN rest : rest[i] = "="
       THEN SubSeq(rest, 1, (CHOOSE i \in DOMAIN rest :
                                rest[i] = "=" /\ \A j \in 1..(i - 1) : rest[j] # "=") - 1)
       ELSE rest

Trimmed(text) == StripChar(Strip(text), Quote)

\* C8 as stated: the name of a returned record is the trimmed right-hand side
\* (read as the code reads it, up to a second '=') of the first line of the
\* record holding 'name' and '=', and the header name exactly when no line
\* holds both.
C8_Original ==
    spc = "done" =>
       \A k \in DOMAIN blocks :
          LET ls == SplitLines(blocks[k].content)
          IN IF HasNameLine(ls)
             THEN blocks[k].name = Trimmed(FirstAssigned(FirstNameLine(ls)))
             ELSE blocks[k].name = QuotedToken(ls[1], 2)

\* C8 amended: the name of a returned record is the text between the first
\* and the second '=' (or the end) of the first line of the record holding
\* 'name' and '=', trimmed of blanks and then of surrounding double quotes,
\* when that text is not empty; it is the header name when no line of the
\* record holds both or when the trimmed text is empty.
C8_NameFinalization ==
    spc = "done" =>
       \A k \in DOMAIN blocks :
          LET ls == SplitLines(blocks[k].content)
          IN IF HasNameLine(ls) /\ Trimmed(FirstAssigned(FirstNameLine(ls))) # <<>>
             THEN blocks[k].name = Trimmed(FirstAssigned(FirstNameLine(ls)))
             ELSE blocks[k].name = QuotedToken(ls[1], 2)

\* C8 witness: a returned record with two different name assignments in its
\* body, and one whose only assignment is empty.
C8_Witness ==
    /\ spc = "done"
    /\ \E k \in DOMAIN blocks :
          LET ls == SplitLines(blocks[k].content)
          IN \E i, j \in DOMAIN ls :
                /\ i < j
                /\ ls[i] \in {LnName, LnNameTwoEq, LnNameEmpty}
                /\ ls[j] \in {LnName, LnNameTwoEq, LnNameEmpty}
                /\ ls[i] # ls[j]

\* the block starts of S in increasing order
StartsInOrder(ls, S) ==
    [k \in 1..Cardinality(BlockStarts(ls, S)) |-> KthOf(BlockStarts(ls, S), k)]

\* C9: for an input cut into brace-balanced resource blocks (and ordinary
\* lines between them) the scan returns one record per block, in the order
\* of the blocks, and the content of the k-th record is the lines of the
\* k-th block, header line to balancing line, joined by newlines.
C9_OneRecordPerBlock ==
    spc = "done" =>
       \A S \in SUBSET DOMAIN lines :
          IsBlockSequence(lines, S) =>
             LET starts == StartsInOrder(lines, S)
             IN /\ Len(blocks) = Len(starts)
                /\ \A k \in DOMAIN starts :
                      /\ blocks[k].content =
                            Join(SubSeq(lines, starts[k], SegEnd(lines, S, starts[k])),
                                 Newline)
                      /\ blocks[k].identifier = HeaderIdentifier(lines[starts[k]])

\* C9 witness: two blocks with different identifiers, the first of more than
\* one line, have been returned.
C9_Witness ==
    /\ spc = "done"
    /\ \E S \in SUBSET DOMAIN lines :
          /\ IsBlockSequence(lines, S)
          /\ Cardinality(BlockStarts(lines, S)) >= 2
          /\ SegEnd(lines, S, 1) > 1
    /\ Len(blocks) >= 2
    /\ blocks[1].identifier # blocks[2].identifier

\* C10: while a record stays open every line, resource headers included, is
\* appended to it, the header tokens stay, and no record is emitted; the
\* records already emitted are never dropped or changed; the scan never
\* raises; and when the text ends with the record still open the open record
\* holds every line from its header to the end of the text and is not among
\* the returned records.
C10_UnbalancedAbsorbs ==
    /\ [][ (spc = "scan" /\ in_block /\ in_block' /\ sidx' = sidx + 1) =>
              /\ current_block' = Append(current_block, lines[sidx + 1])
              /\ blocks' = blocks
              /\ resource_type' = resource_type
              /\ resource_name' = resource_name ]_vars
    /\ [][ (spc \in {"scan", "done"}) =>
              /\ Len(blocks') >= Len(blocks)
              /\ SubSeq(blocks', 1, Len(blocks)) = blocks ]_vars
    /\ [](spc # "raised")
    /\ []((spc = "done" /\ in_block) =>
             /\ current_block # <<>>
             /\ current_block =
                   SubSeq(lines, Len(lines) - Len(current_block) + 1, Len(lines))
             /\ IsResourceHeader(current_block[1]) \/ QuotedToken(current_block[1], 1) = <<>>
             /\ brace_count # 0
             /\ \A k \in DOMAIN blocks :
                   Len(SplitLines(blocks[k].content)) <= Len(lines) - Len(current_block))

\* C10 witness: the scan has returned one record while a later record, which
\* absorbed a resource header, is still open.
C10_Witness ==
    /\ spc = "done"
    /\ in_block
    /\ Len(blocks) >= 1
    /\ \E k \in 2..Len(current_block) : IsResourceHeader(current_block[k])


\* the line has as many '{' as '}'
IsBalancedLine(line) == NetBraces(<<line>>, 1, 1) = 0

\* the scan is about to read a line
AtLine == spc = "scan" /\ sidx < Len(lines)

\* C18: outside a record the brace counter is zero and nothing is
\* accumulated; inside a record the counter is the opening minus the
\* closing braces of the accumulated lines, header line included, and is
\* not zero; a record closes at the end of the first line after which the
\* counter is zero; a resource header with as many '{' as '}' read outside a
\* record is returned as a record whose content is that line alone; and a
\* line read outside a record that is no header changes nothing, so the
\* lines after a closed record are not absorbed.
C18_ClosingRule ==
    /\ [](~in_block => brace_count = 0 /\ current_block = <<>>)
    /\ [](in_block =>
             /\ brace_count = NetBraces(current_block, 1, Len(current_block))
             /\ brace_count # 0
             /\ \A k \in 1..(Len(current_block) - 1) : NetBraces(current_block, 1, k) # 0)
    /\ [][ (AtLine /\ in_block) =>
              (in_block' <=> NetBraces(Append(current_block, lines[sidx + 1]), 1,
                                       Len(current_block) + 1) # 0) ]_vars
    /\ [][ (AtLine /\ ~in_block /\ IsResourceHeader(lines[sidx + 1])
              /\ IsBalancedLine(lines[sidx + 1])) =>
              /\ ~in_block'
              /\ Len(blocks') = Len(blocks) + 1
              /\ blocks'[Len(blocks')].content = lines[sidx + 1]
              /\ blocks'[Len(blocks')].identifier = HeaderIdentifier(lines[sidx + 1]) ]_vars
    /\ [][ (AtLine /\ ~in_block /\ IsOrdinaryLine(lines[sidx + 1])) =>
              /\ ~in_block'
              /\ blocks' = blocks ]_vars

\* a header without its brace, then a name line and a closing brace: one
\* record of the header line alone, named by the header, and nothing open
C18_Witness ==
    /\ spc = "done"
    /\ lines = <<LnHeaderBare, LnName, LnClose>>
    /\ ~in_block
    /\ Len(blocks) = 1
    /\ blocks[1].content = LnHeaderBare
    /\ blocks[1].name = <<"m">>

\* =====================================================================
\* Reference Extractor: extract_resource_references
\*   pattern = (?:^|\s|=|\(|\[)([a-zA-Z0-9_]+\.[a-zA-Z0-9_]+)
\*             (?:\.[a-zA-Z0-9_]+)?(?=\s|$|\)|\]|,)
\* Positions are 1-based; a position is the index of the next character.
\* =====================================================================
\* [a-zA-Z0-9_]
WordChars ==
    {"a", "b", "c", "d", "e", "f", "g", "h", "i", "j", "k", "l", "m",
     "n", "o", "p", "q", "r", "s", "t", "u", "v", "w", "x", "y", "z",
     "A", "B", "C", "D", "E", "F", "G", "H", "I", "J", "K", "L", "M",
     "N", "O", "P", "Q", "R", "S", "T", "U", "V", "W", "X", "Y", "Z",
     "0", "1", "2", "3", "4", "5", "6", "7", "8", "9", "_"}

\* \s
ReSpace == {" ", "\t", "\n", "\r", "\f"}

\* the one-character alternatives of the leading group (?:^|\s|=|\(|\[)
PrefixChars == ReSpace \cup {"=", "(", "["}

MaxOf(S) == CHOOSE x \in S : \A y \in S : y <= x
MinOf(S) == CHOOSE x \in S : \A y \in S : x <= y

\* [a-zA-Z0-9_]+ matches text[from..to]
IsWordRun(text, from, to) ==
    from <= to /\ to <= Len(text) /\ \A i \in from..to : text[i] \in WordChars

\* the lookahead (?=\s|$|\)|\]|,) at position q; $ also matches just before
\* a line break that ends the text
LookaheadOk(text, q) ==
    \/ q = Len(text) + 1
    \/ (q = Len(text) /\ text[q] = Newline)
    \/ (q <= Len(text) /\ text[q] \in ReSpace \cup {")", "]", ","})

\* (?:\.[a-zA-Z0-9_]+)? then the lookahead, after a group that ends at e2:
\* the end of the whole match, 0 when there is none.  The optional group is
\* greedy: the longest attribute first, no attribute last.
MatchTail(text, e2) ==
    LET withAttr == {e3 \in (e2 + 2)..Len(text) :
                        /\ text[e2 + 1] = "."
                        /\ IsWordRun(text, e2 + 2, e3)
                        /\ LookaheadOk(text, e3 + 1)}
    IN IF withAttr # {} THEN MaxOf(withAttr)
       ELSE IF LookaheadOk(text, e2 + 1) THEN e2
       ELSE 0

\* the second segment of the group from s2: the last position of the group,
\* 0 when there is none (the longest segment that lets the rest match)
MatchSecond(text, s2) ==
    LET ok == {e2 \in s2..Len(text) : IsWordRun(text, s2, e2) /\ MatchTail(text, e2) # 0}
    IN IF ok # {} THEN MaxOf(ok) ELSE 0

\* the group ([a-zA-Z0-9_]+\.[a-zA-Z0-9_]+) from g: its last position, 0
\* when there is none
MatchGroup(text, g) ==
    LET ok == {e1 \in g..(Len(text) - 2) :
                  /\ IsWordRun(text, g, e1)
                  /\ text[e1 + 1] = "."
                  /\ MatchSecond(text, e1 + 2) # 0}
    IN IF ok # {} THEN MatchSecond(text, MaxOf(ok) + 2) ELSE 0

\* the pattern matched at position p: [ok, gstart, gend, end]; the
\* alternatives of the leading group are tried in order, ^ first
MatchAt(text, p) ==
    IF p = 1 /\ MatchGroup(text, p) # 0
    THEN [ok |-> TRUE, gstart |-> p, gend |-> MatchGroup(text, p),
          end |-> MatchTail(text, MatchGroup(text, p))]
    ELSE IF p <= Len(text) /\ text[p] \in PrefixChars /\ MatchGroup(text, p + 1) # 0
    THEN [ok |-> TRUE, gstart |-> p + 1, gend |-> MatchGroup(text, p + 1),
          end |-> MatchTail(text, MatchGroup(text, p + 1))]
    ELSE [ok |-> FALSE, gstart |-> 0, gend |-> 0, end |-> 0]

\* mutant: the captured group takes the attribute with it
Group1_WithAttribute(text, m) == SubSeq(text, m.gstart, m.end)

\* line 53: match.group(1)
Group1(text, m) == SubSeq(text, m.gstart, m.gend)

\* lines 52-53: re.finditer from position pos on, the group of every match
RECURSIVE FindAll(_, _)
FindAll(text, pos) ==
    LET hits == {p \in pos..(Len(text) + 1) : MatchAt(text, p).ok}
    IN IF hits = {} THEN <<>>
       ELSE LET m == MatchAt(text, MinOf(hits))
            IN <<Group1(text, m)>> \o FindAll(text, m.end + 1)

\* a list without its repeated entries, first occurrences kept
RECURSIVE Dedup(_)
Dedup(s) ==
    IF s = <<>> THEN <<>>
    ELSE LET init == Dedup(SubSeq(s, 1, Len(s) - 1))
         IN IF \E i \in DOMAIN init : init[i] = s[Len(s)] THEN init
            ELSE Append(init, s[Len(s)])

\* mutant: repeated references are returned once
extract_resource_references_Dedup(text) == Dedup(FindAll(text, 1))

\* lines 47-53
extract_resource_references(text) == FindAll(text, 1)

\* =====================================================================
\* Graph Builder and Serializer: create_edges_from_block,
\* create_diagram_edges, write_diagram_yaml (edges)
\* =====================================================================
\* lines 60-61: content_lines = block.content.splitlines()[1:-1], joined
BodyText(block) ==
    LET ls == SplitLines(block.content)
    IN Join(SubSeq(ls, 2, Len(ls) - 1), Newline)

\* mutant: source and target of the Edge are exchanged
RECURSIVE EdgesTo_Swapped(_, _)
EdgesTo_Swapped(refs, identifier) ==
    IF refs = <<>> THEN <<>>
    ELSE IF Head(refs) # identifier
         THEN <<[source |-> Head(refs), target |-> identifier]>>
              \o EdgesTo_Swapped(Tail(refs), identifier)
         ELSE EdgesTo_Swapped(Tail(refs), identifier)

\* keep the entries of refs for which the target differs from identifier
RECURSIVE EdgesTo(_, _)
EdgesTo(refs, identifier) ==
    IF refs = <<>> THEN <<>>
    ELSE IF Head(refs) # identifier
         THEN <<[source |-> identifier, target |-> Head(refs)]>>
              \o EdgesTo(Tail(refs), identifier)
         ELSE EdgesTo(Tail(refs), identifier)

\* mutant: self-references are not skipped
create_edges_from_block_NoSelfFilter(block) ==
    [i \in DOMAIN extract_resource_references(BodyText(block)) |->
        [source |-> block.identifier,
         target |-> extract_resource_references(BodyText(block))[i]]]

\* lines 56-75
create_edges_from_block(block) ==
    EdgesTo(extract_resource_references(BodyText(block)), block.identifier)

\* str.replace(".", "-")
DotToDash(text) == [i \in DOMAIN text |-> IF text[i] = "." THEN "-" ELSE text[i]]

\* lines 125-135: the edges of the document; the key is left out for an
\* empty edge list, which the empty list stands for
EdgeDicts(edges) ==
    [i \in DOMAIN edges |->
        [source |-> DotToDash(edges[i].source), target |-> DotToDash(edges[i].target)]]

\* the records handed to the Graph Builder: kind and header name
RecordHeads == {[type |-> <<"a">>, name |-> <<"m">>], [type |-> <<"b">>, name |-> <<"n">>]}

\* the pieces a record body is made of
TkRefA == <<"a", ".", "m">>
TkRefB == <<"b", ".", "n">>
TkAttr == <<".", "i", "d">>
TkWord == <<"x">>
TkSpace == <<" ">>
TkEq == <<"=">>
TkComma == <<",">>
TkNewline == <<Newline>>

TokenSet == {TkRefA, TkRefB, TkAttr, TkWord, TkSpace, TkEq, TkComma, TkNewline}

RECURSIVE Concat(_)
Concat(parts) == IF parts = <<>> THEN <<>> ELSE Head(parts) \o Concat(Tail(parts))

\* resource "<type>" "<name>" {
HeaderLine(head) ==
    KwResource \o <<" ", Quote>> \o head.type \o <<Quote, " ", Quote>> \o head.name
    \o <<Quote, " ", "{">>

\* the record the Block Scanner returns for the header, the body and a
\* closing brace line
RecordOf(head, body) ==
    MakeBlock(head.type, head.name,
              SplitLines(HeaderLine(head) \o <<Newline>> \o body \o <<Newline, "}">>))

\* =====================================================================
\* Graph Builder: create_diagram_nodes
\* =====================================================================
\* lines 19-28: parent_mappings, in the order of the dict
parent_mappings ==
    <<
     [key |-> <<"a", "w", "s", "_", "v", "p", "c">>,
      value |-> <<"r", "e", "g", "i", "o", "n">>],
     [key |-> <<"a", "w", "s", "_", "s", "u", "b", "n", "e", "t">>,
      value |-> <<"v", "p", "c">>],
     [key |-> <<"a", "w", "s", "_", "l", "b">>,
      value |-> <<"v", "p", "c">>],
     [key |-> <<"a", "w", "s", "_", "e", "c", "s", "_", "s", "e", "r", "v", "i", "c", "e">>,
      value |-> <<"p", "r", "i", "v", "a", "t", "e", "-", "s", "u", "b", "n", "e", "t">>],
     [key |-> <<"a", "w", "s", "_", "e", "c", "s", "_", "c", "l", "u", "s", "t", "e", "r">>,
      value |-> <<"p", "r", "i", "v", "a", "t", "e", "-", "s", "u", "b", "n", "e", "t">>],
     [key |-> <<"a", "w", "s", "_", "c", "l", "o", "u", "d", "f", "r", "o", "n", "t", "_", "d", "i", "s", "t", "r", "i", "b", "u", "t", "i", "o", "n">>,
      value |-> None],
     [key |-> <<"a", "w", "s", "_", "w", "a", "f", "_", "w", "e", "b", "_", "a", "c", "l">>,
      value |-> None],
     [key |-> <<"a", "w", "s", "_", "w", "a", "f", "r", "e", "g", "i", "o", "n", "a", "l", "_", "w", "e", "b", "_", "a", "c", "l">>,
      value |-> <<"r", "e", "g", "i", "o", "n">>]
    >>

\* lines 33-42: type_labels, in the order of the dict
type_labels ==
    <<
     [key |-> <<"a", "w", "s", "_", "v", "p", "c">>,
      value |-> <<"V", "P", "C">>],
     [key |-> <<"a", "w", "s", "_", "s", "u", "b", "n", "e", "t">>,
      value |-> <<"S", "u", "b", "n", "e", "t">>],
     [key |-> <<"a", "w", "s", "_", "l", "b">>,
      value |-> <<"L", "o", "a", "d", " ", "B", "a", "l", "a", "n", "c", "e", "r">>],
     [key |-> <<"a", "w", "s", "_", "e", "c", "s", "_", "s", "e", "r", "v", "i", "c", "e">>,
      value |-> <<"E", "C", "S", " ", "S", "e", "r", "v", "i", "c", "e">>],
     [key |-> <<"a", "w", "s", "_", "e", "c", "s", "_", "c", "l", "u", "s", "t", "e", "r">>,
      value |-> <<"E", "C", "S", " ", "C", "l", "u", "s", "t", "e", "r">>],
     [key |-> <<"a", "w", "s", "_", "c", "l", "o", "u", "d", "f", "r", "o", "n", "t", "_", "d", "i", "s", "t", "r", "i", "b", "u", "t", "i", "o", "n">>,
      value |-> <<"C", "l", "o", "u", "d", "F", "r", "o", "n", "t">>],
     [key |-> <<"a", "w", "s", "_", "w", "a", "f", "_", "w", "e", "b", "_", "a", "c", "l">>,
      value |-> <<"W", "A", "F">>],
     [key |-> <<"a", "w", "s", "_", "w", "a", "f", "r", "e", "g", "i", "o", "n", "a", "l", "_", "w", "e", "b", "_", "a", "c", "l">>,
      value |-> <<"R", "e", "g", "i", "o", "n", "a", "l", " ", "W", "A", "F">>]
    >>

\* dict.get(key): the value of the key, None when the dict has no such key
DictGet(dict, key) ==
    IF \E i \in DOMAIN dict : dict[i].key = key
    THEN dict[CHOOSE i \in DOMAIN dict : dict[i].key = key].value
    ELSE None

HasKey(dict, key) == \E i \in DOMAIN dict : dict[i].key = key

\* lines 18-29
get_resource_parent(type) == DictGet(parent_mappings, type)

\* str.replace(old, new) for a non-empty old: the occurrences from the left,
\* not overlapping
RECURSIVE Replace(_, _, _)
Replace(text, old, new) ==
    IF Len(text) < Len(old) THEN text
    ELSE IF SubSeq(text, 1, Len(old)) = old
         THEN new \o Replace(SubSeq(text, Len(old) + 1, Len(text)), old, new)
         ELSE <<Head(text)>> \o Replace(Tail(text), old, new)

LowerLetters == <<"a", "b", "c", "d", "e", "f", "g", "h", "i", "j", "k", "l", "m",
                  "n", "o", "p", "q", "r", "s", "t", "u", "v", "w", "x", "y", "z">>
UpperLetters == <<"A", "B", "C", "D", "E", "F", "G", "H", "I", "J", "K", "L", "M",
                  "N", "O", "P", "Q", "R", "S", "T", "U", "V", "W", "X", "Y", "Z">>

IsLetter(c) == c \in Range(LowerLetters) \cup Range(UpperLetters)

ToUpper(c) ==
    IF c \in Range(LowerLetters)
    THEN UpperLetters[CHOOSE i \in DOMAIN LowerLetters : LowerLetters[i] = c]
    ELSE c

ToLower(c) ==
    IF c \in Range(UpperLetters)
    THEN LowerLetters[CHOOSE i \in DOMAIN UpperLetters : UpperLetters[i] = c]
    ELSE c

\* str.title(): a letter after a letter in lower case, any other letter in
\* upper case
Title(text) ==
    [i \in DOMAIN text |->
        IF i > 1 /\ IsLetter(text[i - 1]) THEN ToLower(text[i]) ELSE ToUpper(text[i])]

\* lines 32-44
get_resource_label(type, name) ==
    (IF HasKey(type_labels, type) THEN DictGet(type_labels, type)
     ELSE Title(Replace(Replace(type, <<"a", "w", "s", "_">>, <<>>), <<"_">>, <<" ">>)))
    \o <<":", " ">> \o name

\* lines 89-92: the default nodes
DefaultNodes ==
    <<[id |-> <<"a", "w", "s", "-", "c", "l", "o", "u", "d">>,
       label |-> <<"A", "W", "S", " ", "C", "l", "o", "u", "d">>,
       parent |-> None, identifier |-> None],
      [id |-> <<"r", "e", "g", "i", "o", "n">>,
       label |-> <<"A", "W", "S", " ", "R", "e", "g", "i", "o", "n">>,
       parent |-> <<"a", "w", "s", "-", "c", "l", "o", "u", "d">>, identifier |-> None]>>

\* mutant: the node id is the identifier as it is
NodeOf_KeepsDot(resource) ==
    [id |-> resource.identifier,
     label |-> get_resource_label(resource.type, resource.name),
     parent |-> get_resource_parent(resource.type),
     identifier |-> resource.identifier]

\* lines 96-106: the Node of one resource
NodeOf(resource) ==
    [id |-> DotToDash(resource.identifier),
     label |-> get_resource_label(resource.type, resource.name),
     parent |-> get_resource_parent(resource.type),
     identifier |-> resource.identifier]

\* lines 112-121: node_dicts; the parent key is left out for a falsy parent,
\* which None stands for
NodeDicts(ns) ==
    [i \in DOMAIN ns |->
        [id |-> ns[i].id, identifier |-> ns[i].identifier, label |-> ns[i].label,
         parent |-> IF Truthy(ns[i].parent) THEN ns[i].parent ELSE None]]

\* the kinds and names of the records handed to create_diagram_nodes
NodeKinds ==
    {<<"a", "w", "s", "_", "v", "p", "c">>,
     <<"a", "w", "s", "_", "s", "u", "b", "n", "e", "t">>,
     <<"a", "w", "s", "_", "c", "l", "o", "u", "d", "f", "r", "o", "n", "t", "_", "d", "i", "s", "t", "r", "i", "b", "u", "t", "i", "o", "n">>,
     <<"a", "w", "s", "_", "i", "a", "m", "_", "r", "o", "l", "e">>,
     <<"a", "w", "s">>,
     <<"a">>,
     <<"a", "-", "b">>}

NodeNames == {<<"m">>, <<"b", "-", "m">>, <<"c", "l", "o", "u", "d">>}

NodeRecords == {RecordOf([type |-> t, name |-> n], <<>>) : t \in NodeKinds, n \in NodeNames}

InitNodes ==
    /\ \E n \in 0..MaxRecords : resources \in [1..n -> NodeRecords]
    /\ nodes = <<>>
    /\ nidx = 0
    /\ npc = "start"
    /\ eidx = 0
    /\ ref_content = <<>>
    /\ references = <<>>
    /\ all_edges = <<>>
    /\ edge_dicts = <<>>
    /\ document = <<>>
    /\ epc = "idle"
    /\ IdleCluster
    /\ IdleScan
    /\ IdlePipe
    /\ IdleIcon

\* lines 88-92: nodes = [the default nodes]
NodesStart ==
    /\ npc = "start"
    /\ nodes' = DefaultNodes
    /\ nidx' = 0
    /\ npc' = "loop"
    /\ UNCHANGED nonNodeVars

\* lines 95-106: one iteration of the for loop
NodesAppend ==
    /\ npc = "loop"
    /\ nidx < Len(resources)
    /\ nodes' = Append(nodes, NodeOf(resources[nidx + 1]))
    /\ nidx' = nidx + 1
    /\ UNCHANGED npc
    /\ UNCHANGED nonNodeVars

\* line 108: return nodes
NodesReturn ==
    /\ npc = "loop"
    /\ nidx = Len(resources)
    /\ npc' = "done"
    /\ UNCHANGED <<nodes, nidx>>
    /\ UNCHANGED nonNodeVars

NextNodes ==
    \/ NodesStart
    \/ NodesAppend
    \/ NodesReturn

SpecNodes == InitNodes /\ [][NextNodes]_vars

\* ---------------------------------------------------------------------
\* Claims about create_diagram_nodes
\* ---------------------------------------------------------------------
\* id is identifier with every '.' turned into '-' and nothing else changed
IsDashedForm(id, identifier) ==
    /\ Len(id) = Len(identifier)
    /\ \A i \in DOMAIN identifier :
          id[i] = IF identifier[i] = "." THEN "-" ELSE identifier[i]

\* the parent hints of the static table for the kinds of the model
ExpectedParent(type) ==
    IF type = <<"a", "w", "s", "_", "v", "p", "c">> THEN <<"r", "e", "g", "i", "o", "n">>
    ELSE IF type = <<"a", "w", "s", "_", "s", "u", "b", "n", "e", "t">> THEN <<"v", "p", "c">>
    ELSE None

\* C11: for a record list of length n, the empty list included,
\* create_diagram_nodes returns n + 2 nodes: 'aws-cloud' without parent,
\* 'region' with parent 'aws-cloud', then one node per record in input
\* order with the record identifier as sourceIdentifier, the identifier
\* with '.' replaced by '-' as id, and the table entry of the kind as
\* parent hint (none for a kind the table does not have).
C11_NodesPerRecord ==
    /\ npc = "loop" => Len(nodes) = nidx + 2
    /\ npc = "done" =>
          /\ Len(nodes) = Len(resources) + 2
          /\ nodes[1].id = <<"a", "w", "s", "-", "c", "l", "o", "u", "d">> /\ nodes[1].parent = None
          /\ nodes[2].id = <<"r", "e", "g", "i", "o", "n">>
          /\ nodes[2].parent = <<"a", "w", "s", "-", "c", "l", "o", "u", "d">>
          /\ \A k \in DOMAIN resources :
                /\ IsDashedForm(nodes[k + 2].id, resources[k].identifier)
                /\ nodes[k + 2].identifier = resources[k].identifier
                /\ nodes[k + 2].parent = ExpectedParent(resources[k].type)

\* a subnet and a record of a kind the table does not have, in this order
C11_Witness ==
    /\ npc = "done"
    /\ Len(resources) = 2
    /\ nodes[3].id = <<"a", "w", "s", "_", "s", "u", "b", "n", "e", "t", "-", "m">>
    /\ nodes[3].parent = <<"v", "p", "c">>
    /\ nodes[4].id = <<"a", "-", "b", "-", "m">>
    /\ nodes[4].parent = None

\* C12: whenever the identifiers of the records are pairwise distinct, the
\* ids of the nodes returned by create_diagram_nodes, the two default nodes
\* included, are pairwise distinct.
C12_CollisionFree ==
    (/\ npc = "done"
     /\ \A i, j \in DOMAIN resources :
           i # j => resources[i].identifier # resources[j].identifier)
    => \A i, j \in DOMAIN nodes : i # j => nodes[i].id # nodes[j].id


\* the bodies of at most k tokens
Bodies(k) == UNION { {Concat(tokens) : tokens \in [1..j -> TokenSet]} : j \in 0..k }

\* no record, one record, or two records; the second record costs two
\* tokens of the budget
InitEdges ==
    /\ \/ resources = <<>>
       \/ \E head \in RecordHeads, body \in Bodies(MaxTokens) :
             resources = <<RecordOf(head, body)>>
       \/ \E h1 \in RecordHeads, h2 \in RecordHeads, k \in 0..(MaxTokens - 2) :
             \E b1 \in Bodies(k), b2 \in Bodies(MaxTokens - 2 - k) :
                resources = <<RecordOf(h1, b1), RecordOf(h2, b2)>>
    /\ eidx = 0
    /\ ref_content = <<>>
    /\ references = <<>>
    /\ all_edges = <<>>
    /\ edge_dicts = <<>>
    /\ document = <<>>
    /\ epc = "edges"
    /\ IdleCluster
    /\ IdleScan
    /\ IdleNodes
    /\ IdlePipe
    /\ IdleIcon

\* lines 81-83: one iteration of create_diagram_edges, with the call of
\* create_edges_from_block (lines 58-75)
EdgesFromBlock ==
    /\ epc = "edges"
    /\ eidx < Len(resources)
    /\ eidx' = eidx + 1
    /\ ref_content' = BodyText(resources[eidx + 1])
    /\ references' = extract_resource_references(BodyText(resources[eidx + 1]))
    /\ all_edges' = all_edges \o create_edges_from_block(resources[eidx + 1])
    /\ UNCHANGED <<resources, edge_dicts, document, epc>>
    /\ UNCHANGED nonEdgeVars

\* line 84: return all_edges
EdgesReturn ==
    /\ epc = "edges"
    /\ eidx = Len(resources)
    /\ epc' = "write"
    /\ UNCHANGED <<resources, eidx, ref_content, references, all_edges, edge_dicts,
                   document>>
    /\ UNCHANGED nonEdgeVars

\* lines 123-138: write_diagram_yaml(nodes, path, edges)
WriteDiagramYaml ==
    /\ epc = "write"
    /\ edge_dicts' = EdgeDicts(all_edges)
    /\ document' = [nodes |-> NodeDicts(nodes), edges |-> EdgeDicts(all_edges)]
    /\ epc' = "done"
    /\ UNCHANGED <<resources, eidx, ref_content, references, all_edges>>
    /\ UNCHANGED nonEdgeVars

NextEdges ==
    \/ EdgesFromBlock
    \/ EdgesReturn
    \/ WriteDiagramYaml

SpecEdges == InitEdges /\ [][NextEdges]_vars

\* =====================================================================
\* Properties of the Reference Extractor and the Graph Builder
\* =====================================================================
\* the maximal run of word characters from p: its last position, p - 1 when
\* text[p] is no word character
RunEnd(text, p) ==
    MaxOf({p - 1} \cup {e \in p..Len(text) : \A i \in p..e : text[i] \in WordChars})

\* position q is the end of the text or holds white space, ')', ']' or ','
DelimitedAfter(text, q) ==
    q = Len(text) + 1 \/ (q <= Len(text) /\ text[q] \in ReSpace \cup {")", "]", ","})

\* position p is the start of the text or follows white space, '=', '(' or '['
DelimitedBefore(text, p) == p = 1 \/ text[p - 1] \in PrefixChars

IsDotAt(text, q) == q <= Len(text) /\ text[q] = "."

\* a correctly delimited token of two or three dot-joined segments starts
\* at p
IsTokenStart(text, p) ==
    LET e1 == RunEnd(text, p)
        e2 == RunEnd(text, e1 + 2)
        e3 == RunEnd(text, e2 + 2)
    IN /\ p \in 1..Len(text)
       /\ DelimitedBefore(text, p)
       /\ e1 >= p /\ IsDotAt(text, e1 + 1) /\ e2 >= e1 + 2
       /\ \/ DelimitedAfter(text, e2 + 1)
          \/ IsDotAt(text, e2 + 1) /\ e3 >= e2 + 2 /\ DelimitedAfter(text, e3 + 1)

\* the token at p has a third segment
HasAttribute(text, p) ==
    IsDotAt(text, RunEnd(text, RunEnd(text, p) + 2) + 1)

\* the first two segments of the token at p
FirstTwoSegments(text, p) == SubSeq(text, p, RunEnd(text, RunEnd(text, p) + 2))

TokenStarts(text) == {p \in 1..Len(text) : IsTokenStart(text, p)}

\* the k-th smallest element of a set of numbers
KthSmallest(S, k) == CHOOSE x \in S : Cardinality({y \in S : y < x}) = k - 1

\* the number of entries of list equal to x
Occurrences(list, x) == Cardinality({i \in DOMAIN list : list[i] = x})

\* a word, a dot, a word, and nothing else
IsTwoSegments(ref) ==
    \E d \in 2..(Len(ref) - 1) :
        /\ ref[d] = "."
        /\ \A i \in DOMAIN ref : i # d => ref[i] \in WordChars

ExtractorRan == eidx >= 1

IdA == <<"a", ".", "m">>
IdB == <<"b", ".", "n">>

\* C4: no edge returned for a record has its target equal to its source,
\* in the edge list of create_diagram_edges and in the serialized document
\* after '.' became '-', also when the body of the record mentions the
\* identifier of the record, with or without an attribute suffix; the
\* references to other records are all kept, in order, with the record as
\* their source.
C4_NoSelfEdges ==
    /\ \A i \in DOMAIN all_edges : all_edges[i].source # all_edges[i].target
    /\ \A i \in DOMAIN edge_dicts : edge_dicts[i].source # edge_dicts[i].target
    /\ epc = "done" => Len(edge_dicts) = Len(all_edges)
    /\ (Len(resources) = 1 /\ ExtractorRan) =>
          /\ \A i \in DOMAIN all_edges : all_edges[i].source = resources[1].identifier
          /\ \A x \in Range(references) \ {resources[1].identifier} :
                Occurrences([i \in DOMAIN all_edges |-> all_edges[i].target], x)
                    = Occurrences(references, x)
          /\ Occurrences([i \in DOMAIN all_edges |-> all_edges[i].target],
                         resources[1].identifier) = 0

\* a record whose body mentions its own identifier with an attribute suffix
\* and another record: only the other record is an edge of the document
C4_Witness ==
    /\ epc = "done"
    /\ Len(resources) = 1
    /\ resources[1].identifier = IdA
    /\ ref_content = IdA \o TkAttr \o TkSpace \o IdB
    /\ references = <<IdA, IdB>>
    /\ edge_dicts = <<[source |-> <<"a", "-", "m">>, target |-> <<"b", "-", "n">>]>>

\* C5 as stated: the returned list holds each referenced identifier exactly
\* once, at the position of its first occurrence in the body.
C5_Deduplicated ==
    ExtractorRan =>
        /\ \A i, j \in DOMAIN references : i # j => references[i] # references[j]
        /\ Range(references)
              = {FirstTwoSegments(ref_content, p) : p \in TokenStarts(ref_content)}

\* C5: the returned list is order-preserving and holds one entry for every
\* correctly delimited occurrence of a reference in the body, in the order
\* of the occurrences: an identifier the body references k times appears k
\* times.
C5_OnePerOccurrence ==
    ExtractorRan =>
        /\ Len(references) = Cardinality(TokenStarts(ref_content))
        /\ \A k \in DOMAIN references :
              references[k]
                  = FirstTwoSegments(ref_content, KthSmallest(TokenStarts(ref_content), k))

\* a body that references one identifier twice
C5_Witness ==
    /\ ExtractorRan
    /\ Cardinality(TokenStarts(ref_content)) = 2
    /\ references = <<IdA, IdA>>

\* C6: a correctly delimited token of two dot-joined segments, with or
\* without a third attribute segment, is captured as exactly its first two
\* segments; every captured reference is two word segments joined by one
\* dot, so none carries an attribute suffix; the body "a.m.id b.n" gives
\* exactly a.m and b.n.
C6_AttributeStripped ==
    ExtractorRan =>
        /\ \A p \in TokenStarts(ref_content) :
              \E k \in DOMAIN references :
                  /\ references[k] = FirstTwoSegments(ref_content, p)
                  /\ k = Cardinality({q \in TokenStarts(ref_content) : q <= p})
        /\ \A k \in DOMAIN references : IsTwoSegments(references[k])
        /\ ref_content = IdA \o TkAttr \o TkSpace \o IdB => references = <<IdA, IdB>>

\* a body with a three-segment token and a two-segment token
C6_Witness ==
    /\ ExtractorRan
    /\ ref_content = IdA \o TkAttr \o TkSpace \o IdB
    /\ HasAttribute(ref_content, 1)
    /\ ~HasAttribute(ref_content, 8)
    /\ references = <<IdA, IdB>>

\* the text between the first and the last line break of content
BetweenBoundaryLines(text) ==
    LET breaks == {i \in DOMAIN text : text[i] = Newline}
    IN IF Cardinality(breaks) < 2 THEN <<>>
       ELSE SubSeq(text, MinOf(breaks) + 1, MaxOf(breaks) - 1)

\* the edges a record declares: one per token of its body, in text order,
\* without the tokens that name the record itself
RECURSIVE DeclaredEdges(_, _, _)
DeclaredEdges(identifier, body, from) ==
    LET starts == {p \in TokenStarts(body) : p >= from}
    IN IF starts = {} THEN <<>>
       ELSE LET p == MinOf(starts)
                ref == FirstTwoSegments(body, p)
            IN (IF ref = identifier THEN <<>>
                ELSE <<[source |-> identifier, target |-> ref]>>)
               \o DeclaredEdges(identifier, body, p + 1)

\* the edges of the first k records, record after record
RECURSIVE EdgesOfFirst(_)
EdgesOfFirst(k) ==
    IF k = 0 THEN <<>>
    ELSE EdgesOfFirst(k - 1)
         \o DeclaredEdges(resources[k].identifier,
                          BetweenBoundaryLines(resources[k].content), 1)

\* C13: create_diagram_edges returns, for the records in input order, one
\* edge per reference found between the first and the last line of the
\* record, in text order, with the record's identifier as source and the
\* reference as target, leaving out only the references equal to the
\* record's own identifier.
C13_EdgeEmission ==
    /\ all_edges = EdgesOfFirst(eidx)
    /\ ExtractorRan => ref_content = BetweenBoundaryLines(resources[eidx].content)

\* two records, each with a reference to the other
C13_Witness ==
    /\ epc = "write"
    /\ Len(resources) = 2
    /\ resources[1].identifier = IdA
    /\ resources[2].identifier = IdB
    /\ all_edges = <<[source |-> IdA, target |-> IdB], [source |-> IdB, target |-> IdA]>>

\* =====================================================================
\* Pipeline: main (tf_scanner.py), run twice on the same file contents
\* =====================================================================
\* the lines the scanned files are made of
PipeLineSet == {LnHeaderA, LnHeaderB, LnHeaderBare, LnName, LnRef, LnClose}

\* the file contents of at most k lines
FileContents(k) == UNION { {Join(ls, Newline) : ls \in [1..j -> PipeLineSet]} : j \in 0..k }

\* mutant: the list of the previous run is used again
NewAllBlocks_Carried(previous) == previous

\* line 151: all_blocks = []
NewAllBlocks(previous) == <<>>

\* no file, one file, or two files with MaxFileLines lines together
InitPipeline ==
    /\ \/ files = <<>>
       \/ \E c \in FileContents(MaxFileLines) : files = <<c>>
       \/ \E k \in 0..MaxFileLines :
             \E c1 \in FileContents(k), c2 \in FileContents(MaxFileLines - k) :
                files = <<c1, c2>>
    /\ fidx = 0
    /\ all_blocks = <<>>
    /\ first_document = <<>>
    /\ prun = 1
    /\ ppc = "files"
    /\ IdleScan
    /\ IdleNodes
    /\ IdleEdges
    /\ IdleCluster
    /\ IdleIcon

\* lines 153-154 and 74-79: the next file, extract_resource_blocks is entered
PipeScanFile ==
    /\ ppc = "files"
    /\ fidx < Len(files)
    /\ fidx' = fidx + 1
    /\ content' = files[fidx + 1]
    /\ lines' = <<>>
    /\ sidx' = 0
    /\ blocks' = <<>>
    /\ current_block' = <<>>
    /\ brace_count' = 0
    /\ in_block' = FALSE
    /\ resource_type' = None
    /\ resource_name' = None
    /\ spc' = "start"
    /\ ppc' = "scan"
    /\ UNCHANGED <<files, all_blocks, first_document, prun>>
    /\ UNCHANGED <<edgeVars, nodeVars, nonPipeVars>>

\* line 155: all_blocks.extend(blocks)
PipeCollect ==
    /\ ppc = "scan"
    /\ spc = "done"
    /\ all_blocks' = all_blocks \o blocks
    /\ ppc' = "files"
    /\ UNCHANGED <<files, fidx, first_document, prun>>
    /\ UNCHANGED <<scanVars, edgeVars, nodeVars, nonPipeVars>>

\* line 168: create_diagram_nodes(all_blocks) is entered
PipeCreateNodes ==
    /\ ppc = "files"
    /\ fidx = Len(files)
    /\ resources' = all_blocks
    /\ nodes' = <<>>
    /\ nidx' = 0
    /\ npc' = "start"
    /\ ppc' = "nodes"
    /\ UNCHANGED <<files, fidx, all_blocks, first_document, prun>>
    /\ UNCHANGED <<eidx, ref_content, references, all_edges, edge_dicts, document, epc>>
    /\ UNCHANGED <<scanVars, nonPipeVars>>

\* lines 169 and 80: create_diagram_edges(all_blocks) is entered
PipeCreateEdges ==
    /\ ppc = "nodes"
    /\ npc = "done"
    /\ eidx' = 0
    /\ ref_content' = <<>>
    /\ references' = <<>>
    /\ all_edges' = <<>>
    /\ epc' = "edges"
    /\ ppc' = "edges"
    /\ UNCHANGED <<files, fidx, all_blocks, first_document, prun>>
    /\ UNCHANGED <<resources, edge_dicts, document>>
    /\ UNCHANGED <<scanVars, nodeVars, nonPipeVars>>

\* the document is written; main runs again on the same files
PipeRerun ==
    /\ ppc = "edges"
    /\ epc = "done"
    /\ prun = 1
    /\ first_document' = document
    /\ prun' = 2
    /\ fidx' = 0
    /\ all_blocks' = NewAllBlocks(all_blocks)
    /\ ppc' = "files"
    /\ UNCHANGED files
    /\ UNCHANGED <<scanVars, edgeVars, nodeVars, nonPipeVars>>

\* the document of the second run is written
PipeDone ==
    /\ ppc = "edges"
    /\ epc = "done"
    /\ prun = 2
    /\ ppc' = "done"
    /\ UNCHANGED <<files, fidx, all_blocks, first_document, prun>>
    /\ UNCHANGED <<scanVars, edgeVars, nodeVars, nonPipeVars>>

NextPipeline ==
    \/ PipeScanFile
    \/ ScanStart
    \/ ScanLine
    \/ ScanReturn
    \/ PipeCollect
    \/ PipeCreateNodes
    \/ NodesStart
    \/ NodesAppend
    \/ NodesReturn
    \/ PipeCreateEdges
    \/ EdgesFromBlock
    \/ EdgesReturn
    \/ WriteDiagramYaml
    \/ PipeRerun
    \/ PipeDone

SpecPipeline == InitPipeline /\ [][NextPipeline]_vars

\* C14: two runs of the pipeline on the same sequence of file contents
\* give identical documents, the same nodes in the same order and the same
\* edges in the same order; the second run starts from an empty record
\* list, and the document has a node for every record of this run only.
C14_Idempotent ==
    /\ ppc = "done" =>
          /\ document = first_document
          /\ document.nodes = first_document.nodes
          /\ document.edges = first_document.edges
          /\ Len(document.nodes) = Len(all_blocks) + 2
    /\ (prun = 2 /\ ppc = "files" /\ fidx = 0) => all_blocks = <<>>

\* both runs are over two files; the document has a record node and an edge
C14_Witness ==
    /\ ppc = "done"
    /\ Len(files) = 2
    /\ Len(document.nodes) >= 3
    /\ Len(document.edges) >= 1

\* =====================================================================
\* Icon lookup: get_node_class, called by DiagramGenerator._create_nodes
\* =====================================================================
\* lines 22-34: RESOURCE_TO_NODE, in the order of the dict
RESOURCE_TO_NODE ==
    <<
     [key |-> <<"a", "w", "s", "_", "v", "p", "c">>,
      value |-> "VPC"],
     [key |-> <<"a", "w", "s", "_", "s", "u", "b", "n", "e", "t">>,
      value |-> "PublicSubnet"],
     [key |-> <<"a", "w", "s", "_", "i", "n", "t", "e", "r", "n", "e", "t", "_", "g", "a", "t", "e", "w", "a", "y">>,
      value |-> "InternetGateway"],
     [key |-> <<"a", "w", "s", "_", "r", "o", "u", "t", "e", "_", "t", "a", "b", "l", "e">>,
      value |-> "RouteTable"],
     [key |-> <<"a", "w", "s", "_", "s", "e", "c", "u", "r", "i", "t", "y", "_", "g", "r", "o", "u", "p">>,
      value |-> "Nacl"],
     [key |-> <<"a", "w", "s", "_", "i", "a", "m", "_", "r", "o", "l", "e">>,
      value |-> "IAMRole"],
     [key |-> <<"a", "w", "s", "_", "e", "c", "s", "_", "c", "l", "u", "s", "t", "e", "r">>,
      value |-> "ECS"],
     [key |-> <<"a", "w", "s", "_", "e", "c", "s", "_", "s", "e", "r", "v", "i", "c", "e">>,
      value |-> "ECS"],
     [key |-> <<"a", "w", "s", "_", "e", "c", "s", "_", "t", "a", "s", "k", "_", "d", "e", "f", "i", "n", "i", "t", "i", "o", "n">>,
      value |-> "ECS"],
     [key |-> <<"p", "r", "o", "v", "i", "d", "e", "r">>,
      value |-> "General"]
    >>

NoClass == "None"                \* get_node_class returned None
Raised == "IndexError"           \* get_node_class raised

\* str.endswith(suffix)
EndsWith(text, suffix) ==
    Len(text) >= Len(suffix)
    /\ SubSeq(text, Len(text) - Len(suffix) + 1, Len(text)) = suffix

\* lines 48-51: the value of the first key that ends with base_type
FirstSuffixMatch(base_type) ==
    LET hits == {i \in DOMAIN RESOURCE_TO_NODE : EndsWith(RESOURCE_TO_NODE[i].key, base_type)}
    IN IF hits = {} THEN NoClass ELSE RESOURCE_TO_NODE[MinOf(hits)].value

\* lines 37-52; split("_")[1] raises IndexError for a kind without '_'
get_node_class(type) ==
    IF StartsWith(type, <<"p", "r", "o", "v", "i", "d", "e", "r", "-">>)
    THEN DictGet(RESOURCE_TO_NODE, <<"p", "r", "o", "v", "i", "d", "e", "r">>)
    ELSE IF HasKey(RESOURCE_TO_NODE, type) THEN DictGet(RESOURCE_TO_NODE, type)
    ELSE IF Len(Split(type, "_")) < 2 THEN Raised
    ELSE FirstSuffixMatch(Split(type, "_")[2])

\* the words resource kinds are made of
KindWords ==
    {<<"a", "w", "s">>, <<"v", "p", "c">>, <<"s", "u", "b", "n", "e", "t">>, <<"e", "c", "s">>, <<"c", "l", "u", "s", "t", "e", "r">>, <<"x">>}

\* kinds of at most k words joined by '_'
Kinds(k) == UNION { {Join(ws, "_") : ws \in [1..j -> KindWords]} : j \in 1..k }

\* ids of the nodes _create_nodes creates: the default nodes of
\* create_diagram_nodes, a provider node, and "<kind>-<name>" of a record
CreatedNodeIds ==
    {<<"a", "w", "s", "-", "c", "l", "o", "u", "d">>, <<"r", "e", "g", "i", "o", "n">>,
     <<"p", "r", "o", "v", "i", "d", "e", "r", "-", "a", "w", "s">>}
    \cup {kind \o <<"-", "m">> : kind \in Kinds(MaxWords)}

InitIcon ==
    /\ node_id \in CreatedNodeIds
    /\ icon_type = <<>>
    /\ node_class = "unset"
    /\ ipc = "create"
    /\ IdleCluster
    /\ IdleScan
    /\ IdleEdges
    /\ IdleNodes
    /\ IdlePipe

\* lines 207-208: resource_type = node_id.split("-")[0], get_node_class
IconLookup ==
    /\ ipc = "create"
    /\ icon_type' = Split(node_id, "-")[1]
    /\ node_class' = get_node_class(Split(node_id, "-")[1])
    /\ ipc' = IF get_node_class(Split(node_id, "-")[1]) = Raised THEN "raised" ELSE "done"
    /\ UNCHANGED node_id
    /\ UNCHANGED nonIconVars

NextIcon == IconLookup

SpecIcon == InitIcon /\ [][NextIcon]_vars

\* the first key of the table that ends with word, 0 when there is none
FirstKeyEndingWith(word) ==
    IF \E i \in DOMAIN RESOURCE_TO_NODE : EndsWith(RESOURCE_TO_NODE[i].key, word)
    THEN CHOOSE i \in DOMAIN RESOURCE_TO_NODE :
            /\ EndsWith(RESOURCE_TO_NODE[i].key, word)
            /\ \A j \in 1..(i - 1) : ~EndsWith(RESOURCE_TO_NODE[j].key, word)
    ELSE 0

\* the kind has a second underscore-separated segment
HasSecondSegment(kind) == Count(kind, "_") >= 1

\* C17: get_node_class returns the class of a direct table match,
\* otherwise the class of the first table key that ends with the second
\* underscore-separated segment of the kind, otherwise None; it returns
\* None for every kind that matches nothing, the kinds derived from the
\* ids of the default nodes included, and never raises.
C17_IconLookup ==
    /\ ipc # "raised"
    /\ ipc = "done" =>
          IF HasKey(RESOURCE_TO_NODE, icon_type)
          THEN node_class = DictGet(RESOURCE_TO_NODE, icon_type)
          ELSE IF HasSecondSegment(icon_type)
                  /\ FirstKeyEndingWith(Split(icon_type, "_")[2]) # 0
          THEN node_class
                 = RESOURCE_TO_NODE[FirstKeyEndingWith(Split(icon_type, "_")[2])].value
          ELSE node_class = NoClass

====
